---- MODULE Spec2Model ----
(***************************************************************************)
(* A model of the hybrid retrieval and orchestration engine of             *)
(* citadel-bing-agent: the internal knowledge matcher                      *)
(* (plugins/internal_knowledge_plugin.py), the request handler             *)
(* stream_agent_response (main_sk.py) with its external run polling loop,  *)
(* and the startup wiring (gunicorn_sk_conf.py).                           *)
(*                                                                         *)
(* Texts are TLA+ strings; the Python string operations the code uses      *)
(* (lower, strip, split, startswith, "in", slicing, join) are operators    *)
(* that compute on the characters.                                         *)
(***************************************************************************)
EXTENDS Integers, Sequences, FiniteSets, TLC

None == "<<None>>"

(***************************************************************************)
(* Python string operations                                                *)
(***************************************************************************)
\* the lower-case letter of each upper-case letter
LowerOf ==
    [A |-> "a", B |-> "b", C |-> "c", D |-> "d", E |-> "e", F |-> "f", G |-> "g",
     H |-> "h", I |-> "i", J |-> "j", K |-> "k", L |-> "l", M |-> "m", N |-> "n",
     O |-> "o", P |-> "p", Q |-> "q", R |-> "r", S |-> "s", T |-> "t", U |-> "u",
     V |-> "v", W |-> "w", X |-> "x", Y |-> "y", Z |-> "z"]

\* one character of str.lower()
LowerChar(c) == IF c \in DOMAIN LowerOf THEN LowerOf[c] ELSE c

RECURSIVE Lower(_)
\* str.lower(), computed by halves
Lower(s) ==
    IF Len(s) = 0 THEN ""
    ELSE IF Len(s) = 1 THEN LowerChar(s)
    ELSE LET m == Len(s) \div 2
         IN  Lower(SubSeq(s, 1, m)) \o Lower(SubSeq(s, m + 1, Len(s)))

\* the i-th character of s
Char(s, i) == SubSeq(s, i, i)

\* the whitespace characters str.split() and str.strip() act on
IsSpace(c) == c \in {" ", "\n", "\t", "\r"}

\* p in s  (substring test)
Contains(p, s) ==
    \E i \in 1..(Len(s) - Len(p) + 1) : SubSeq(s, i, i + Len(p) - 1) = p

\* s.startswith(p)
StartsWith(s, p) == Len(p) <= Len(s) /\ SubSeq(s, 1, Len(p)) = p

\* str.strip()
Strip(s) ==
    LET n == Len(s)
        \* the numbers of leading and of trailing whitespace characters
        lead == CHOOSE k \in 0..n :
                    /\ k = n \/ ~IsSpace(Char(s, k + 1))
                    /\ \A j \in 1..k : IsSpace(Char(s, j))
        trail == CHOOSE k \in 0..n :
                    /\ k = n \/ ~IsSpace(Char(s, n - k))
                    /\ \A j \in 1..k : IsSpace(Char(s, n - j + 1))
    IN  IF lead = n THEN "" ELSE SubSeq(s, lead + 1, n - trail)

\* the k-th smallest element of a set of integers
Nth(S, k) == CHOOSE i \in S : Cardinality({j \in S : j < i}) = k - 1

\* str.split(): split on runs of whitespace, no empty words
SplitWs(s) ==
    LET starts == {i \in 1..Len(s) :
                      ~IsSpace(Char(s, i)) /\ (i = 1 \/ IsSpace(Char(s, i - 1)))}
        ends   == {i \in 1..Len(s) :
                      ~IsSpace(Char(s, i)) /\ (i = Len(s) \/ IsSpace(Char(s, i + 1)))}
    IN  [k \in 1..Cardinality(starts) |-> SubSeq(s, Nth(starts, k), Nth(ends, k))]

\* str.split('\n'): every newline separates, empty lines are kept
SplitLines(s) ==
    LET breaks == {i \in 1..Len(s) : Char(s, i) = "\n"}
        n == Cardinality(breaks)
        From(k) == IF k = 1 THEN 1 ELSE Nth(breaks, k - 1) + 1
        To(k) == IF k = n + 1 THEN Len(s) ELSE Nth(breaks, k) - 1
    IN  [k \in 1..(n + 1) |-> SubSeq(s, From(k), To(k))]

RECURSIVE Join(_, _)
\* sep.join(parts)
Join(sep, parts) ==
    IF parts = <<>> THEN ""
    ELSE IF Len(parts) = 1 THEN parts[1]
    ELSE parts[1] \o sep \o Join(sep, Tail(parts))

\* s[:n]
Prefix(s, n) == IF Len(s) <= n THEN s ELSE SubSeq(s, 1, n)

\* the elements of a sequence
Range(seq) == {seq[i] : i \in 1..Len(seq)}

(***************************************************************************)
(* InternalKnowledgePlugin                                                 *)
(*                                                                         *)
(* A knowledge snapshot is [customers, products]: customers is the         *)
(* sequence (dict insertion order) of [id, data] where data is the         *)
(* sequence of the record's field values, each as the text str(value);     *)
(* products is the sequence of [id, content].                              *)
(***************************************************************************)

\* _load_banking_policies
Policies == <<
    [key |-> "account_opening",
     text |-> "New accounts require ID verification, credit check, and minimum deposit of $100."],
    [key |-> "loan_approval",
     text |-> "Loans require income verification, credit score above 650, and debt-to-income ratio below 40%."],
    [key |-> "wire_transfer",
     text |-> "Wire transfers above $10,000 require manager approval and additional verification."],
    [key |-> "fraud_protection",
     text |-> "Suspicious activities trigger automatic account holds and customer notifications."],
    [key |-> "customer_service",
     text |-> "All customer inquiries should be handled within 24 hours with full documentation."],
    [key |-> "compliance",
     text |-> "All transactions must comply with BSA, AML, and KYC requirements."] >>

EmptyQueryText == "Please provide a search query."

GreetingText == "Hello! I'm your outdoor gear assistant. I can help you find information about camping equipment, hiking gear, tents, sleeping bags, backpacks, and more. What specific products are you looking for?"

BeSpecificText == "Please be more specific about what camping or outdoor gear you're looking for. I can help with tents, sleeping bags, backpacks, hiking gear, camping stoves, and more."

\* the not-found guidance sentinel
NotFoundText(query) ==
    "No specific products found for '" \o query \o "'. I can help you find camping gear like tents, sleeping bags, backpacks, hiking boots, camping stoves, and outdoor clothing. What are you looking for?"

greetings == {"hi", "hello", "hey", "good morning", "good afternoon", "good evening"}

simple_queries == {"help", "start", "begin", "what can you do", "how are you"}

common_words ==
    {"tell", "me", "about", "what", "is", "are", "the", "a", "an", "and", "or",
     "but", "in", "on", "at", "to", "for", "of", "with", "by", "from", "up",
     "into", "through", "during", "before", "after", "above", "below",
     "between", "among", "i", "you", "he", "she", "it", "we", "they", "this",
     "that", "these", "those", "can", "could", "would", "should", "will",
     "shall", "may", "might", "must", "do", "does", "did", "have", "has",
     "had", "be", "am", "was", "were", "been", "being", "show", "find",
     "list", "get", "give", "looking", "need", "want", "like", "see", "view"}

\* product_categories, in dict order
product_categories == <<
    [category |-> "tent",     keywords |-> <<"tent", "tents", "shelter">>],
    [category |-> "table",    keywords |-> <<"table", "tables", "dining">>],
    [category |-> "chair",    keywords |-> <<"chair", "chairs", "seat">>],
    [category |-> "backpack", keywords |-> <<"backpack", "backpacks", "pack", "daypack">>],
    [category |-> "sleeping", keywords |-> <<"sleeping", "sleep">>],
    [category |-> "boots",    keywords |-> <<"boot", "boots", "shoe", "shoes", "footwear", "sandal", "sandals">>],
    [category |-> "jacket",   keywords |-> <<"jacket", "jackets">>],
    [category |-> "stove",    keywords |-> <<"stove", "stoves", "cooking", "cook", "burner">>],
    [category |-> "pants",    keywords |-> <<"pant", "pants">>],
    [category |-> "bag",      keywords |-> <<"bag", "bags">> ] >>

policy_keywords == {"policy", "rule", "return", "warranty", "service", "support"}

customer_keywords == {"customer", "account", "order", "purchase"}

\* the product-match limit of the scan
MaxProductMatches == 8

\* the length of the content prefix quoted in a product entry
SnippetLen == 300

\* the greeting / general-query test
IsGreetingQuery(query_lower) ==
    \/ \E g \in greetings : query_lower = g
    \/ \E sq \in simple_queries : Contains(sq, query_lower)
    \/ /\ Len(SplitWs(query_lower)) <= 2
       /\ \E g \in greetings : Contains(g, query_lower)

IsKeyword(word) == word \notin common_words /\ Len(word) > 2

\* keywords = [word for word in query_lower.split() if ...]
ExtractKeywords(query_lower) == SelectSeq(SplitWs(query_lower), IsKeyword)

\* relevant_categories: the taxonomy entries one of whose trigger keywords is a keyword
RelevantCategories(keywords) ==
    LET Hit(c) == \E ck \in Range(c.keywords) : ck \in Range(keywords)
    IN  SelectSeq(product_categories, Hit)

\* PolicyEntries scanning the policies for every query
PolicyEntriesUntriggered(keywords) ==
    LET Hit(p) == \E kw \in Range(keywords) :
                     Contains(kw, Lower(p.key)) \/ Contains(kw, Lower(p.text))
        hits == SelectSeq(Policies, Hit)
    IN  [i \in 1..Len(hits) |-> "Policy - " \o hits[i].key \o ": " \o hits[i].text]

\* the policy entries of the result
PolicyEntries(keywords) ==
    IF \E pk \in policy_keywords : pk \in Range(keywords)
    THEN LET Hit(p) == LET key_lower == Lower(p.key)
                            text_lower == Lower(p.text)
                        IN  \E kw \in Range(keywords) :
                               Contains(kw, key_lower) \/ Contains(kw, text_lower)
             hits == SelectSeq(Policies, Hit)
         IN  [i \in 1..Len(hits) |-> "Policy - " \o hits[i].key \o ": " \o hits[i].text]
    ELSE <<>>

\* category_match: the stripped, lower-cased line after the first '## category' line
CategoryMatch(content) ==
    LET lines == SplitLines(content)
        IsHeader(i) == StartsWith(Lower(Strip(lines[i])), "## category")
        headers == {i \in 1..Len(lines) : IsHeader(i)}
    IN  IF headers # {}
        THEN LET first == CHOOSE i \in headers : \A j \in headers : i <= j
                 \* lines.index(line)
                 idx == CHOOSE i \in 1..Len(lines) :
                              lines[i] = lines[first] /\ \A j \in 1..(i - 1) : lines[j] # lines[first]
             IN  IF idx + 1 <= Len(lines) THEN Lower(Strip(lines[idx + 1])) ELSE None
        ELSE None

\* ProductName taking the whole document for the name
ProductNameWholeDocument(content) == content

\* product_name: the second line of the document
ProductName(content) ==
    LET lines == SplitLines(content)
    IN  IF Len(lines) > 1 THEN lines[2] ELSE ""

\* should_include looking for the category keywords in the whole document
ShouldIncludeAnywhere(content, keywords, relevant_categories) ==
    LET category_match == CategoryMatch(content)
        content_lower == Lower(content)
    IN  IF relevant_categories # <<>>
        THEN \E c \in Range(relevant_categories) :
                \E ck \in Range(c.keywords) : Contains(ck, content_lower)
        ELSE LET product_name_lower == Lower(ProductName(content))
                 strong_keywords == {kw \in Range(keywords) : Len(kw) > 3}
             IN  \/ \E kw \in strong_keywords : Contains(kw, product_name_lower)
                 \/ \E kw \in strong_keywords :
                       category_match \notin {None, ""} /\ Contains(kw, category_match)

\* should_include
ShouldInclude(content, keywords, relevant_categories) ==
    LET category_match == CategoryMatch(content)
    IN  IF relevant_categories # <<>>
        THEN /\ category_match \notin {None, ""}
             /\ \E c \in Range(relevant_categories) :
                   \E ck \in Range(c.keywords) : Contains(ck, category_match)
        ELSE LET product_name_lower == Lower(ProductName(content))
                 strong_keywords == {kw \in Range(keywords) : Len(kw) > 3}
             IN  \/ \E kw \in strong_keywords : Contains(kw, product_name_lower)
                 \/ \E kw \in strong_keywords :
                       category_match \notin {None, ""} /\ Contains(kw, category_match)

\* ScanStops never ending the scan
ScanNeverStops(product_matches) == FALSE

\* the test that ends the product loop after a match
ScanStops(product_matches) == product_matches >= MaxProductMatches

RECURSIVE ProductScan(_, _, _, _, _, _)
\* the product loop from document i on; stops at the MaxProductMatches-th match
ProductScan(products, i, keywords, relevant_categories, results, product_matches) ==
    IF i > Len(products) THEN results
    ELSE IF ShouldInclude(products[i].content, keywords, relevant_categories)
         THEN LET entry == "Product - " \o products[i].id \o ": "
                               \o Prefix(products[i].content, SnippetLen) \o "..."
              IN  IF ScanStops(product_matches + 1)
                  THEN Append(results, entry)
                  ELSE ProductScan(products, i + 1, keywords, relevant_categories,
                                   Append(results, entry), product_matches + 1)
         ELSE ProductScan(products, i + 1, keywords, relevant_categories,
                          results, product_matches)

\* a customer record one of whose field values contains a keyword
CustomerMatches(data, keywords) ==
    \E v \in Range(data) :
        LET value_lower == Lower(v)
        IN  \E kw \in Range(keywords) : Contains(kw, value_lower)

\* the decimal text of a match count
DigitText(n) == SubSeq("0123456789", n + 1, n + 1)

RECURSIVE NatText(_)
NatText(n) == IF n < 10 THEN DigitText(n) ELSE NatText(n \div 10) \o DigitText(n % 10)

\* CustomerEntries naming the matching records
CustomerEntriesNamed(customers, keywords) ==
    IF \E ck \in customer_keywords : ck \in Range(keywords)
    THEN LET Hit(c) == CustomerMatches(c.data, keywords)
             hits == SelectSeq(customers, Hit)
         IN  IF hits # <<>>
             THEN << "Found " \o NatText(Len(hits))
                        \o " matching customer records: "
                        \o Join(", ", [i \in 1..Len(hits) |-> hits[i].id]) >>
             ELSE <<>>
    ELSE <<>>

\* the customer entry of the result (at most one)
CustomerEntries(customers, keywords) ==
    IF \E ck \in customer_keywords : ck \in Range(keywords)
    THEN LET customer_matches ==
                 Cardinality({i \in 1..Len(customers) :
                                 CustomerMatches(customers[i].data, keywords)})
         IN  IF customer_matches > 0
             THEN << "Found " \o NatText(customer_matches)
                        \o " matching customer records (details require specific customer ID)" >>
             ELSE <<>>
    ELSE <<>>

\* search_internal_knowledge going on to the scans without keywords
search_internal_knowledge_unguarded(kb, query) ==
    IF query = "" THEN EmptyQueryText
    ELSE
    LET query_lower == Strip(Lower(query))
    IN  IF IsGreetingQuery(query_lower) THEN GreetingText
        ELSE
        LET keywords == ExtractKeywords(query_lower)
            relevant_categories == RelevantCategories(keywords)
            afterPolicies == PolicyEntries(keywords)
            afterProducts == ProductScan(kb.products, 1, keywords,
                                         relevant_categories, afterPolicies, 0)
            results == afterProducts \o CustomerEntries(kb.customers, keywords)
        IN  IF results # <<>>
            THEN Join("\n\n", results)
            ELSE NotFoundText(query)

\* search_internal_knowledge(query)
search_internal_knowledge(kb, query) ==
    IF query = "" THEN EmptyQueryText
    ELSE
    LET query_lower == Strip(Lower(query))
    IN  IF IsGreetingQuery(query_lower) THEN GreetingText
        ELSE
        LET keywords == ExtractKeywords(query_lower)
        IN  IF keywords = <<>> THEN BeSpecificText
            ELSE
            LET relevant_categories == RelevantCategories(keywords)
                afterPolicies == PolicyEntries(keywords)
                afterProducts == ProductScan(kb.products, 1, keywords,
                                             relevant_categories, afterPolicies, 0)
                results == afterProducts \o CustomerEntries(kb.customers, keywords)
            IN  IF results # <<>>
                THEN Join("\n\n", results)
                ELSE NotFoundText(query)

(***************************************************************************)
(* Inputs: the knowledge directory, the client queries, the replies of the *)
(* grounded-completion service                                             *)
(***************************************************************************)
KbEmpty == [customers |-> <<>>, products |-> <<>>]

KbGear ==
    [customers |->
        << [id |-> "c1", data |-> <<"c1", "Jane Doe", "premium account", "active">>],
           [id |-> "c2", data |-> <<"c2", "John Roe", "basic", "closed">>] >>,
     products |->
        << [id |-> "1",
            content |-> "# Information about product item_number: 1\nTrailMaster X4 Tent\n\n## Category\nTents\n\n## Features\nSleeps four"],
           [id |-> "2",
            content |-> "# Information about product item_number: 2\nAdventurer Pro Backpack\n\n## Category\nBackpacks\n\nFits inside a tent vestibule"],
           [id |-> "3",
            content |-> "# Information about product item_number: 3\nSummit Stove\n\nWorks in any tent or shelter"] >>]

\* the contents of the files directory the plugin loads from
Snapshots == {KbEmpty, KbGear}

\* the user messages clients send
Queries ==
    {"hello", "what tents do you have", "latest tents", "what's the weather today",
     "market", "sunglasses", "customer service", "item not found"}

\* the queries of the two-request specifications
PairQueries == {"hello", "what's the weather today", "sunglasses"}

\* the queries the matcher is exercised on: empty, greetings, stopwords only,
\* category, free-text, policy and customer queries, queries matching nothing
MatcherQueries ==
    {"", "hi", "what can you do", "tell me about the", "hello",
     "show me tents", "summit", "summit stove", "backpacks",
     "premium customer", "customer account", "return policy",
     "sunglasses", "beginner sunglasses", "item not found", "latest tents",
     "pro", "vestibule", "packs", "dome", "summit tents",
     "account service tents", "hiking boots", "help me find a tent"}

\* every message a request of the specifications carries
SentMessages == Queries \cup PairQueries \cup MatcherQueries

\* how many assistant messages the service adds to a run's thread
MaxAssistantMessages == 1

TextItem(v) == [kind |-> "text", value |-> v]
ImageItem == [kind |-> "image", value |-> None]

\* the assistant messages the service may produce
AssistantMessages ==
    { [role |-> "assistant", content |-> <<TextItem("Sunny, 21C in Seattle [bing.com]")>>],
      [role |-> "assistant", content |-> <<>>],
      [role |-> "assistant",
       content |-> <<ImageItem, TextItem(""),
                     TextItem("Cloudy, 12C in Seattle [bing.com]")>>] }

TerminalStatuses == {"completed", "failed", "expired", "cancelled"}

Workers == {1, 2}
Reqs == {1, 2}
NoReq == 0

(***************************************************************************)
(* Startup: create_hybrid_system and the lifespan hook                     *)
(*                                                                         *)
(* A startup environment says which settings are present and which         *)
(* construction calls fail:                                                *)
(*   init_fails          Kernel() / plugin construction raises             *)
(*   cust_fail_at, prod_fail_at   0, or k when reading the k-th customer / *)
(*                       product file raises (1 also stands for a failing  *)
(*                       os.listdir)                                       *)
(*   openai_endpoint, project_endpoint, conn_string    settings present    *)
(*   chat_fails, client_fails    AzureChatCompletion / AIProjectClient     *)
(*                       construction raises                               *)
(*   bing_name, bing_other       BING_CONNECTION_NAME / _ID or _ENDPOINT   *)
(*   by_name_fails, list_finds   connections.get raises / connections.list *)
(*                       returns the connection                            *)
(*   create_bing_fails, create_nobing_fails   create_agent raises          *)
(***************************************************************************)
EnvOk ==
    [init_fails |-> FALSE, cust_fail_at |-> 0, prod_fail_at |-> 0,
     openai_endpoint |-> TRUE, project_endpoint |-> TRUE, conn_string |-> FALSE,
     chat_fails |-> FALSE, client_fails |-> FALSE,
     bing_name |-> TRUE, bing_other |-> FALSE,
     by_name_fails |-> FALSE, list_finds |-> TRUE,
     create_bing_fails |-> FALSE, create_nobing_fails |-> FALSE]

\* the startup environments of the serving specifications: one per wiring
ServingEnvs ==
    { EnvOk,
      [EnvOk EXCEPT !.init_fails = TRUE],
      [EnvOk EXCEPT !.chat_fails = TRUE],
      [EnvOk EXCEPT !.client_fails = TRUE],
      [EnvOk EXCEPT !.project_endpoint = FALSE, !.openai_endpoint = FALSE],
      [EnvOk EXCEPT !.create_bing_fails = TRUE, !.create_nobing_fails = TRUE] }

\* _load_customer_data / _load_product_data: the records read before the failure
LoadRecords(records, fail_at) ==
    IF fail_at = 0 \/ fail_at > Len(records) THEN records
    ELSE SubSeq(records, 1, fail_at - 1)

\* InternalKnowledgePlugin.__init__
NewInternalKnowledgePlugin(dir, e) ==
    [customers |-> LoadRecords(dir.customers, e.cust_fail_at),
     products  |-> LoadRecords(dir.products, e.prod_fail_at)]

\* the chat service create_hybrid_system leaves in its global
CreatedChatService(e) ==
    (e.openai_endpoint \/ e.project_endpoint) /\ ~e.chat_fails

\* the project client create_hybrid_system leaves in its global
CreatedProjectClient(e) ==
    (e.conn_string \/ e.project_endpoint) /\ ~e.client_fails

\* the Bing grounding tool is built when the connection is found by name or by listing
BingGroundingBuilt(e) ==
    e.bing_name /\ (~e.by_name_fails \/ e.list_finds)

\* CreatedAgent without the handler that clears the agent with the client
CreatedAgentWithoutClient(e) ==
    IF e.bing_name \/ e.bing_other
    THEN \/ BingGroundingBuilt(e) /\ ~e.create_bing_fails
         \/ ~e.create_nobing_fails
    ELSE ~e.create_nobing_fails

\* the agent create_hybrid_system leaves in its global
CreatedAgent(e) ==
    /\ CreatedProjectClient(e)
    /\ IF e.bing_name \/ e.bing_other
       THEN \/ BingGroundingBuilt(e) /\ ~e.create_bing_fails
            \/ ~e.create_nobing_fails
       ELSE ~e.create_nobing_fails

\* the agent is the one created with the Bing grounding tool
CreatedWithBing(e) ==
    /\ CreatedProjectClient(e)
    /\ e.bing_name \/ e.bing_other
    /\ BingGroundingBuilt(e) /\ ~e.create_bing_fails

\* agent.id, as the service assigned it to the agent that was created
CreatedAgentId(e) ==
    IF ~CreatedAgent(e) THEN None
    ELSE IF CreatedWithBing(e) THEN "asst_hybrid_outdoor_assistant"
         ELSE "asst_assistant_no_bing"

\* the handles create_hybrid_system sets, copied by lifespan; all None when it raises
\* the module globals before startup: every handle None.  A handle is TRUE when
\* the object is there; knowledge is the data the plugin object holds.
NoHandles ==
    [kernel |-> FALSE, internal_plugin |-> FALSE, knowledge |-> KbEmpty,
     chat_service |-> FALSE, ai_project_client |-> FALSE, agent |-> FALSE,
     agent_id |-> None]

create_hybrid_system(dir, e) ==
    IF e.init_fails
    THEN NoHandles
    ELSE [kernel |-> TRUE,
          internal_plugin |-> TRUE,
          knowledge |-> NewInternalKnowledgePlugin(dir, e),
          chat_service |-> CreatedChatService(e),
          ai_project_client |-> CreatedProjectClient(e),
          agent |-> CreatedAgent(e),
          agent_id |-> CreatedAgentId(e)]

(***************************************************************************)
(* stream_agent_response: texts and pure parts                             *)
(***************************************************************************)
\* the skip list of step 1
external_info_keywords ==
    {"weather", "temperature", "forecast", "news", "current", "today", "now",
     "latest", "recent", "stock", "price", "market"}

\* the trigger list of step 2
web_search_keywords ==
    {"weather", "current", "today", "now", "latest", "recent", "news", "stock",
     "price", "forecast", "temperature"}

\* any(keyword in user_message.lower() for keyword in keywords)
AnyKeywordIn(message, keywords) ==
    LET lowered == Lower(message)
    IN  \E keyword \in keywords : Contains(keyword, lowered)

\* the sent messages that hold a word of the skip list, and those that hold a
\* word of the trigger list (the two tests, computed once per message)
ExternalMessages == {m \in SentMessages : AnyKeywordIn(m, external_info_keywords)}
WebSearchMessages == {m \in SentMessages : AnyKeywordIn(m, web_search_keywords)}

is_external_query(user_message) ==
    IF user_message \in SentMessages THEN user_message \in ExternalMessages
    ELSE AnyKeywordIn(user_message, external_info_keywords)

needs_web_search(user_message) ==
    IF user_message \in SentMessages THEN user_message \in WebSearchMessages
    ELSE AnyKeywordIn(user_message, web_search_keywords)

\* the test that keeps a matcher result as internal_response
IsUsableContext(internal_context) ==
    internal_context # "" /\ ~Contains("not found", Lower(internal_context))

\* the prompt sent to the agent
EnhancedMessage(user_message, internal_response) ==
    IF internal_response # None /\ ~Contains("not found", Lower(internal_response))
    THEN "User question: " \o user_message
           \o "\n\nI have relevant internal outdoor gear information:\n"
           \o internal_response
           \o "\n\nPlease provide a comprehensive answer. If you need current web information, use your Bing search capability and include citations. Combine both internal and web information appropriately."
    ELSE "User question: " \o user_message
           \o "\n\nYou have access to a Bing search tool. Please use it to search for current information to answer this question. Do not say you cannot provide real-time information - instead, use your Bing search capability to find the most up-to-date information and provide it to the user with proper citations.\n\nIMPORTANT: Use the Bing search tool to get current, real-time information for this query."

max_wait_time == 30
wait_interval == 2

AgentLabel == "**AI Assistant with Bing:** "
InternalLabel == "**Internal Knowledge:** "

fallback_response == "Hello! I'm your outdoor gear assistant. I'm currently operating with limited capabilities, but I can still help you with:\n\n* Information about camping equipment and outdoor gear\n* Product details about tents, backpacks, hiking boots, and camping supplies\n* General outdoor activity guidance and tips\n* Equipment recommendations based on your needs\n\nFor weather information, current news, or other external information, I may need my web search capabilities to be working properly.\n\nWhat outdoor gear or camping questions can I help you with?"

ApologyText == "I apologize, but I'm unable to process your request at the moment."

\* the text of the first content item that has a text part, or None
FirstText(content) ==
    IF \E j \in 1..Len(content) : content[j].kind = "text"
    THEN content[CHOOSE j \in 1..Len(content) :
                    content[j].kind = "text"
                    /\ \A k \in 1..(j - 1) : content[k].kind # "text"].value
    ELSE None

RECURSIVE ExtractFrom(_, _, _)
\* the message loop from message i on, agent_response being acc so far
ExtractFrom(messages_list, i, acc) ==
    IF i > Len(messages_list) THEN acc
    ELSE LET message == messages_list[i]
             found == IF message.role = "assistant" /\ message.content # <<>>
                         /\ FirstText(message.content) # None
                      THEN FirstText(message.content)
                      ELSE acc
         IN  IF found \notin {None, ""} THEN found
             ELSE ExtractFrom(messages_list, i + 1, found)

\* agent_response after the extraction loop
ExtractAgentResponse(messages_list) == ExtractFrom(messages_list, 1, None)

\* FinalResponses without step 5
FinalResponsesNoFallback(responses, internal_response) ==
    IF internal_response # None /\ responses = <<>>
    THEN Append(responses, InternalLabel \o internal_response)
    ELSE responses

\* steps 3 to 5: the fragments of the reply
FinalResponses(responses, internal_response) ==
    LET s3 == IF internal_response # None /\ responses = <<>>
              THEN Append(responses, InternalLabel \o internal_response)
              ELSE responses
    IN  IF s3 = <<>> THEN Append(s3, fallback_response) ELSE s3

\* final_response
CombineResponses(responses) ==
    IF responses # <<>> THEN Join("\n\n", responses) ELSE ApologyText

CompletedMessage(text) ==
    [type |-> "completed_message", content |-> text, annotations |-> <<>>]

StreamEnd == [type |-> "stream_end"]

(***************************************************************************)
(* State                                                                   *)
(***************************************************************************)
VARIABLES
    files,              \* the knowledge directory
    env,                \* env[w]: the startup environment of worker w
    wstate,             \* wstate[w]: "down", "starting" or "serving"
    handles,            \* handles[w]: kernel, internal_plugin (with its knowledge),
                        \*   chat_service, ai_project_client, agent of worker w
    loop_owner,         \* loop_owner[w]: the request running on worker w's event loop
    worker,             \* worker[r]: the worker that serves request r
    health_response,    \* health_response[w]: the responses worker w gave to
                        \*   health queries (the last one only)
    pc,                 \* pc[r]: the position of request r in stream_agent_response
    user_message,       \* user_message[r]
    internal_response,  \* internal_response[r]
    enhanced_message,   \* enhanced_message[r]
    elapsed_time,       \* elapsed_time[r]
    calls,              \* calls[r]: the collaborator calls made so far, each
                        \*   <<name, outcome>> with outcome "ok" or "raised"
    last_status,        \* last_status[r]: the status the last successful poll returned
    agent_response,     \* agent_response[r]
    responses,          \* responses[r]
    final_response,     \* final_response[r]
    events,             \* events[r]: the events yielded so far
    run_status,         \* run_status[r]: the service's status of the run of r
    thread              \* thread[r]: the messages of the run's thread, in list order

svars == <<files, env, wstate, handles, loop_owner, worker, health_response>>
rvars == <<pc, user_message, internal_response, enhanced_message, elapsed_time,
           calls, last_status, agent_response, responses,
           final_response, events>>
xvars == <<run_status, thread>>
vars == <<svars, rvars, xvars>>

\* the calls of one kind, and those of them that raised
CallsOf(r, name) == {i \in 1..Len(calls[r]) : calls[r][i][1] = name}
RaisedOf(r, name) == {i \in CallsOf(r, name) : calls[r][i][2] = "raised"}
Polls(r) == Cardinality(CallsOf(r, "poll"))

ServiceWired(w) == handles[w].agent /\ handles[w].ai_project_client
MatcherWired(w) == handles[w].internal_plugin /\ handles[w].kernel

\* the locals of a request before the handler runs, and the unborn run
InitRequests ==
    /\ internal_response = [r \in Reqs |-> None]
    /\ enhanced_message = [r \in Reqs |-> None]
    /\ elapsed_time = [r \in Reqs |-> 0]
    /\ calls = [r \in Reqs |-> <<>>]
    /\ last_status = [r \in Reqs |-> None]
    /\ agent_response = [r \in Reqs |-> None]
    /\ responses = [r \in Reqs |-> <<>>]
    /\ final_response = [r \in Reqs |-> None]
    /\ events = [r \in Reqs |-> <<>>]
    /\ run_status = [r \in Reqs |-> None]
    /\ thread = [r \in Reqs |-> <<>>]

\* one worker, one request
Init ==
    /\ files \in Snapshots
    /\ env \in [Workers -> ServingEnvs]
    /\ env[2] = EnvOk
    /\ wstate = [w \in Workers |-> IF w = 1 THEN "starting" ELSE "down"]
    /\ handles = [w \in Workers |-> NoHandles]
    /\ loop_owner = [w \in Workers |-> NoReq]
    /\ worker = [r \in Reqs |-> 1]
    /\ user_message \in [Reqs -> Queries]
    /\ user_message[2] = "hello"
    /\ pc = [r \in Reqs |-> IF r = 1 THEN "pending" ELSE "absent"]
    /\ InitRequests
    /\ health_response = [w \in Workers |-> <<>>]

(***************************************************************************)
(* Actions                                                                 *)
(***************************************************************************)
\* lifespan: initialise the hybrid system and copy its handles
lifespan(w) ==
    /\ wstate[w] = "starting"
    /\ handles' = [handles EXCEPT ![w] = create_hybrid_system(files, env[w])]
    /\ wstate' = [wstate EXCEPT ![w] = "serving"]
    /\ UNCHANGED <<files, env, loop_owner, worker, health_response, rvars, xvars>>

\* the content of the response of the health endpoint
HealthResponse(h) ==
    [status |-> "healthy",
     framework |-> "hybrid_sk_plus_azure_ai_projects",
     agent_id |-> IF h.agent THEN h.agent_id ELSE None,
     ai_project_client_enabled |-> h.ai_project_client,
     bing_grounding_enabled |-> h.agent,
     internal_knowledge_enabled |-> h.internal_plugin,
     semantic_kernel_enabled |-> h.kernel,
     chat_service_enabled |-> h.chat_service]

\* GET /health, served by the worker's event loop when it is free
health(w) ==
    /\ wstate[w] = "serving"
    /\ loop_owner[w] = NoReq
    /\ health_response' = [health_response EXCEPT ![w] = <<HealthResponse(handles[w])>>]
    /\ UNCHANGED <<files, env, wstate, handles, loop_owner, worker, rvars, xvars>>

\* the event loop of the request's worker is free, or is running this request
HoldsLoop(r) == loop_owner[worker[r]] = r
LoopFree(r) == loop_owner[worker[r]] = NoReq

\* the event loop starts the generator body of a pending request
StartRequest(r) ==
    /\ pc[r] = "pending"
    /\ wstate[worker[r]] = "serving"
    /\ LoopFree(r)
    /\ loop_owner' = [loop_owner EXCEPT ![worker[r]] = r]
    /\ pc' = [pc EXCEPT ![r] = "step1"]
    /\ UNCHANGED <<files, env, wstate, handles, worker, health_response, user_message,
                   internal_response, enhanced_message, elapsed_time, calls,
                   last_status, agent_response, responses,
                   final_response, events, xvars>>

\* the matcher is called in step 1
CallsMatcher(w, message) == MatcherWired(w) /\ ~is_external_query(message)

\* internal_response after a matcher call that returned internal_context
KeptResponse(internal_context) ==
    IF IsUsableContext(internal_context) THEN internal_context ELSE None

\* step 1 without a matcher call: no plugin or kernel, or an external-info query
InternalSkipped(r) ==
    /\ pc[r] = "step1"
    /\ HoldsLoop(r)
    /\ ~CallsMatcher(worker[r], user_message[r])
    /\ pc' = [pc EXCEPT ![r] = "step2"]
    /\ UNCHANGED <<svars, user_message, internal_response, enhanced_message,
                   elapsed_time, calls, last_status, agent_response, responses,
                   final_response, events, xvars>>

\* step 1: the matcher returns; its result is kept when usable
InternalSearch(r) ==
    /\ pc[r] = "step1"
    /\ HoldsLoop(r)
    /\ CallsMatcher(worker[r], user_message[r])
    /\ internal_response' =
          [internal_response EXCEPT ![r] =
              KeptResponse(search_internal_knowledge(
                  handles[worker[r]].knowledge, user_message[r]))]
    /\ calls' = [calls EXCEPT ![r] = Append(@, <<"search", "ok">>)]
    /\ pc' = [pc EXCEPT ![r] = "step2"]
    /\ UNCHANGED <<svars, user_message, enhanced_message, elapsed_time,
                   last_status, agent_response, responses, final_response,
                   events, xvars>>

\* step 1: the matcher call raises; the handler of step 1 logs and goes on
InternalRaises(r) ==
    /\ pc[r] = "step1"
    /\ HoldsLoop(r)
    /\ CallsMatcher(worker[r], user_message[r])
    /\ calls' = [calls EXCEPT ![r] = Append(@, <<"search", "raised">>)]
    /\ pc' = [pc EXCEPT ![r] = "step2"]
    /\ UNCHANGED <<svars, user_message, internal_response, enhanced_message,
                   elapsed_time, last_status, agent_response, responses,
                   final_response, events, xvars>>

\* UsesAgent for the real-time trigger words only
UsesAgentOnTrigger(w, message, internal) ==
    ServiceWired(w) /\ needs_web_search(message)

\* the condition under which step 2 uses the agent
UsesAgent(w, message, internal) ==
    ServiceWired(w) /\ (needs_web_search(message) \/ internal = None)

\* RouteStep taken without waiting for step 1
RouteStepEarly(r) ==
    /\ pc[r] \in {"step1", "step2"}
    /\ HoldsLoop(r)
    /\ IF UsesAgent(worker[r], user_message[r], internal_response[r])
       THEN /\ enhanced_message' =
                  [enhanced_message EXCEPT ![r] =
                      EnhancedMessage(user_message[r], internal_response[r])]
            /\ pc' = [pc EXCEPT ![r] = "submit"]
       ELSE /\ pc' = [pc EXCEPT ![r] = "step3"]
            /\ UNCHANGED enhanced_message
    /\ UNCHANGED <<svars, user_message, internal_response, elapsed_time, calls,
                   last_status, agent_response, responses,
                   final_response, events, xvars>>

\* step 2: decide on the agent and prepare its prompt
RouteStep(r) ==
    /\ pc[r] = "step2"
    /\ HoldsLoop(r)
    /\ IF UsesAgent(worker[r], user_message[r], internal_response[r])
       THEN /\ enhanced_message' =
                  [enhanced_message EXCEPT ![r] =
                      EnhancedMessage(user_message[r], internal_response[r])]
            /\ pc' = [pc EXCEPT ![r] = "submit"]
       ELSE /\ pc' = [pc EXCEPT ![r] = "step3"]
            /\ UNCHANGED enhanced_message
    /\ UNCHANGED <<svars, user_message, internal_response, elapsed_time, calls,
                   last_status, agent_response, responses,
                   final_response, events, xvars>>

UserMessage(text) == [role |-> "user", content |-> <<TextItem(text)>>]

\* create_thread_and_run returns: the run is queued on a new thread
SubmitRun(r) ==
    /\ pc[r] = "submit"
    /\ HoldsLoop(r)
    /\ run_status' = [run_status EXCEPT ![r] = "queued"]
    /\ thread' = [thread EXCEPT ![r] = <<UserMessage(enhanced_message[r])>>]
    /\ elapsed_time' = [elapsed_time EXCEPT ![r] = 0]
    /\ calls' = [calls EXCEPT ![r] = Append(@, <<"submit", "ok">>)]
    /\ pc' = [pc EXCEPT ![r] = "poll"]
    /\ UNCHANGED <<svars, user_message, internal_response, enhanced_message,
                   last_status, agent_response, responses, final_response, events>>

\* the message of the outermost handler of stream_agent_response.  No statement
\* outside the inner try blocks raises, so no action of the model reaches it.
error_message == "I'm sorry, I couldn't generate a response. Please try again."

\* SubmitRaises without the try block of step 2: the outermost handler replies
SubmitRaisesPropagates(r) ==
    /\ pc[r] = "submit"
    /\ HoldsLoop(r)
    /\ calls' = [calls EXCEPT ![r] = Append(@, <<"submit", "raised">>)]
    /\ final_response' = [final_response EXCEPT ![r] = error_message]
    /\ pc' = [pc EXCEPT ![r] = "yield1"]
    /\ UNCHANGED <<svars, user_message, internal_response, enhanced_message,
                   elapsed_time, last_status, agent_response, responses,
                   events, xvars>>

\* create_thread_and_run raises: the handler of step 2 continues to the fallbacks
SubmitRaises(r) ==
    /\ pc[r] = "submit"
    /\ HoldsLoop(r)
    /\ calls' = [calls EXCEPT ![r] = Append(@, <<"submit", "raised">>)]
    /\ pc' = [pc EXCEPT ![r] = "step3"]
    /\ UNCHANGED <<svars, user_message, internal_response, enhanced_message,
                   elapsed_time, last_status, agent_response, responses,
                   final_response, events, xvars>>

\* PollStatus going on polling after a terminal status
PollStatusNoBreak(r) ==
    /\ pc[r] = "poll"
    /\ HoldsLoop(r)
    /\ calls' = [calls EXCEPT ![r] = Append(@, <<"poll", "ok">>)]
    /\ last_status' = [last_status EXCEPT ![r] = run_status[r]]
    /\ pc' = [pc EXCEPT ![r] = "sleep"]
    /\ UNCHANGED <<svars, user_message, internal_response, enhanced_message,
                   elapsed_time, agent_response, responses, final_response,
                   events, xvars>>

\* runs.get returns the run's status: leave the loop on a terminal one, else sleep
PollStatus(r) ==
    /\ pc[r] = "poll"
    /\ HoldsLoop(r)
    /\ calls' = [calls EXCEPT ![r] = Append(@, <<"poll", "ok">>)]
    /\ last_status' = [last_status EXCEPT ![r] = run_status[r]]
    /\ pc' = [pc EXCEPT ![r] =
                 IF run_status[r] \in TerminalStatuses THEN "fetch" ELSE "sleep"]
    /\ UNCHANGED <<svars, user_message, internal_response, enhanced_message,
                   elapsed_time, agent_response, responses, final_response,
                   events, xvars>>

\* runs.get raises: the handler sleeps one interval, then leaves the loop
PollRaises(r) ==
    /\ pc[r] = "poll"
    /\ HoldsLoop(r)
    /\ calls' = [calls EXCEPT ![r] = Append(@, <<"poll", "raised">>)]
    /\ pc' = [pc EXCEPT ![r] = "sleep_error"]
    /\ UNCHANGED <<svars, user_message, internal_response, enhanced_message,
                   elapsed_time, last_status, agent_response, responses,
                   final_response, events, xvars>>

\* AfterSleep with the loop test elapsed_time <= max_wait_time
AfterSleepInclusive(elapsed) == IF elapsed <= max_wait_time THEN "poll" ELSE "fetch"

\* where the loop continues after the sleep that followed a returned poll
AfterSleep(elapsed) == IF elapsed < max_wait_time THEN "poll" ELSE "fetch"

\* time.sleep(wait_interval) returns; pc "sleep" / "sleep_error" is the sleep itself
WakeUp(r) ==
    /\ pc[r] \in {"sleep", "sleep_error"}
    /\ HoldsLoop(r)
    /\ elapsed_time' = [elapsed_time EXCEPT ![r] = @ + wait_interval]
    /\ pc' = [pc EXCEPT ![r] =
                 IF pc[r] = "sleep_error" THEN "fetch"
                 ELSE AfterSleep(elapsed_time[r] + wait_interval)]
    /\ UNCHANGED <<svars, user_message, internal_response, enhanced_message,
                   calls, last_status, agent_response, responses,
                   final_response, events, xvars>>

\* WithAgentFragment losing the extracted text
WithAgentFragmentDropped(resp, extracted) == resp

\* responses after the extraction
WithAgentFragment(resp, extracted) ==
    IF extracted \notin {None, ""} THEN Append(resp, AgentLabel \o extracted) ELSE resp

\* FetchMessages listing the messages a second time
FetchMessagesTwice(r) ==
    /\ pc[r] = "fetch"
    /\ HoldsLoop(r)
    /\ agent_response' = [agent_response EXCEPT ![r] = ExtractAgentResponse(thread[r])]
    /\ responses' = [responses EXCEPT ![r] =
                        IF CallsOf(r, "fetch") = {} THEN @
                        ELSE WithAgentFragment(@, ExtractAgentResponse(thread[r]))]
    /\ calls' = [calls EXCEPT ![r] = Append(@, <<"fetch", "ok">>)]
    /\ pc' = [pc EXCEPT ![r] = IF CallsOf(r, "fetch") = {} THEN "fetch" ELSE "step3"]
    /\ UNCHANGED <<svars, user_message, internal_response, enhanced_message,
                   elapsed_time, last_status, final_response, events, xvars>>

\* messages.list returns the thread: extract the assistant text
FetchMessages(r) ==
    /\ pc[r] = "fetch"
    /\ HoldsLoop(r)
    /\ agent_response' = [agent_response EXCEPT ![r] = ExtractAgentResponse(thread[r])]
    /\ responses' = [responses EXCEPT ![r] =
                        WithAgentFragment(@, ExtractAgentResponse(thread[r]))]
    /\ calls' = [calls EXCEPT ![r] = Append(@, <<"fetch", "ok">>)]
    /\ pc' = [pc EXCEPT ![r] = "step3"]
    /\ UNCHANGED <<svars, user_message, internal_response, enhanced_message,
                   elapsed_time, last_status, final_response, events, xvars>>

\* messages.list raises: no agent response
FetchRaises(r) ==
    /\ pc[r] = "fetch"
    /\ HoldsLoop(r)
    /\ calls' = [calls EXCEPT ![r] = Append(@, <<"fetch", "raised">>)]
    /\ pc' = [pc EXCEPT ![r] = "step3"]
    /\ UNCHANGED <<svars, user_message, internal_response, enhanced_message,
                   elapsed_time, last_status, agent_response, responses,
                   final_response, events, xvars>>

\* ComposeStep adding the fallback text whatever fragments there are
ComposeStepFallbackAlways(r) ==
    /\ pc[r] = "step3"
    /\ HoldsLoop(r)
    /\ responses' = [responses EXCEPT ![r] = Append(@, fallback_response)]
    /\ final_response' =
          [final_response EXCEPT ![r] =
              CombineResponses(Append(responses[r], fallback_response))]
    /\ pc' = [pc EXCEPT ![r] = "yield1"]
    /\ UNCHANGED <<svars, user_message, internal_response, enhanced_message,
                   elapsed_time, calls, last_status, agent_response,
                   events, xvars>>

\* steps 3 to 5 and the join: the reply is complete before anything is yielded
ComposeStep(r) ==
    /\ pc[r] = "step3"
    /\ HoldsLoop(r)
    /\ responses' = [responses EXCEPT ![r] = FinalResponses(@, internal_response[r])]
    /\ final_response' =
          [final_response EXCEPT ![r] =
              CombineResponses(FinalResponses(responses[r], internal_response[r]))]
    /\ pc' = [pc EXCEPT ![r] = "yield1"]
    /\ UNCHANGED <<svars, user_message, internal_response, enhanced_message,
                   elapsed_time, calls, last_status, agent_response,
                   events, xvars>>

\* the first yield: the completed_message event; the generator is suspended and
\* the event loop is released.  The locals that are not read after this point
\* and the service's run are dropped from the state.
YieldCompleted(r) ==
    /\ pc[r] = "yield1"
    /\ HoldsLoop(r)
    /\ events' = [events EXCEPT ![r] = Append(@, CompletedMessage(final_response[r]))]
    /\ loop_owner' = [loop_owner EXCEPT ![worker[r]] = NoReq]
    /\ pc' = [pc EXCEPT ![r] = "yield2"]
    /\ enhanced_message' = [enhanced_message EXCEPT ![r] = None]
    /\ elapsed_time' = [elapsed_time EXCEPT ![r] = 0]
    /\ calls' = [calls EXCEPT ![r] = <<>>]
    /\ last_status' = [last_status EXCEPT ![r] = None]
    /\ run_status' = [run_status EXCEPT ![r] = None]
    /\ thread' = [thread EXCEPT ![r] = <<>>]
    /\ UNCHANGED <<files, env, wstate, handles, worker, health_response, user_message,
                   internal_response, agent_response, responses, final_response>>

\* YieldStreamEnd without its event
YieldStreamEndSilent(r) ==
    /\ pc[r] = "yield2"
    /\ LoopFree(r)
    /\ pc' = [pc EXCEPT ![r] = "done"]
    /\ UNCHANGED <<svars, user_message, internal_response, enhanced_message,
                   elapsed_time, calls, last_status, agent_response,
                   responses, final_response, events, xvars>>

\* the generator is resumed: the stream_end event, and the generator ends
YieldStreamEnd(r) ==
    /\ pc[r] = "yield2"
    /\ LoopFree(r)
    /\ events' = [events EXCEPT ![r] = Append(@, StreamEnd)]
    /\ pc' = [pc EXCEPT ![r] = "done"]
    /\ UNCHANGED <<svars, user_message, internal_response, enhanced_message,
                   elapsed_time, calls, last_status, agent_response,
                   responses, final_response, xvars>>

\* the run exists at the service and the request has not fetched its messages
RunLive(r) == run_status[r] # None /\ pc[r] \in {"poll", "sleep", "sleep_error", "fetch"}

AssistantCount(r) ==
    Cardinality({i \in 1..Len(thread[r]) : thread[r][i].role = "assistant"})

\* the service takes up the queued run
ServiceStart(r) ==
    /\ RunLive(r)
    /\ run_status[r] = "queued"
    /\ run_status' = [run_status EXCEPT ![r] = "in_progress"]
    /\ UNCHANGED <<svars, rvars, thread>>

\* the running agent adds an assistant message; the list is newest first
ServiceReply(r) ==
    /\ RunLive(r)
    /\ run_status[r] = "in_progress"
    /\ AssistantCount(r) < MaxAssistantMessages
    /\ \E m \in AssistantMessages : thread' = [thread EXCEPT ![r] = <<m>> \o @]
    /\ UNCHANGED <<svars, rvars, run_status>>

\* the run ends in a terminal status
ServiceFinish(r) ==
    /\ RunLive(r)
    /\ run_status[r] = "in_progress"
    /\ \E t \in TerminalStatuses : run_status' = [run_status EXCEPT ![r] = t]
    /\ UNCHANGED <<svars, rvars, thread>>

\* the steps of the handler of request r
RequestStep(r) ==
    \/ StartRequest(r)
    \/ InternalSkipped(r)
    \/ InternalSearch(r)
    \/ InternalRaises(r)
    \/ RouteStep(r)
    \/ SubmitRun(r)
    \/ SubmitRaises(r)
    \/ PollStatus(r)
    \/ PollRaises(r)
    \/ WakeUp(r)
    \/ FetchMessages(r)
    \/ FetchRaises(r)
    \/ ComposeStep(r)
    \/ YieldCompleted(r)
    \/ YieldStreamEnd(r)

\* the steps of the grounded-completion service on the run of request r
ServiceStep(r) ==
    \/ ServiceStart(r)
    \/ ServiceReply(r)
    \/ ServiceFinish(r)

Next ==
    \/ \E w \in Workers : lifespan(w)
    \/ \E r \in Reqs : RequestStep(r)
    \/ \E r \in Reqs : ServiceStep(r)

Spec == Init /\ [][Next]_vars

(***************************************************************************)
(* Further specifications                                                  *)
(***************************************************************************)
\* one worker, two concurrent requests
WorkerInit ==
    /\ files = KbGear
    /\ env = [w \in Workers |-> EnvOk]
    /\ wstate = [w \in Workers |-> IF w = 1 THEN "starting" ELSE "down"]
    /\ handles = [w \in Workers |-> NoHandles]
    /\ loop_owner = [w \in Workers |-> NoReq]
    /\ worker = [r \in Reqs |-> 1]
    /\ user_message \in [Reqs -> {"what's the weather today", "sunglasses"}]
    /\ pc = [r \in Reqs |-> "pending"]
    /\ InitRequests
    /\ health_response = [w \in Workers |-> <<>>]

WorkerSpec == WorkerInit /\ [][Next]_vars

\* two workers serve the same query from the same knowledge directory: worker 1
\* came up without the grounded-completion service, worker 2 with it
PairInit ==
    /\ files = KbGear
    /\ env \in [Workers -> ServingEnvs]
    /\ env[1] = [EnvOk EXCEPT !.client_fails = TRUE]
    /\ env[2] = EnvOk
    /\ wstate = [w \in Workers |-> "starting"]
    /\ handles = [w \in Workers |-> NoHandles]
    /\ loop_owner = [w \in Workers |-> NoReq]
    /\ worker = [r \in Reqs |-> r]
    /\ user_message \in [Reqs -> PairQueries]
    /\ user_message[1] = user_message[2]
    /\ pc = [r \in Reqs |-> "pending"]
    /\ InitRequests
    /\ health_response = [w \in Workers |-> <<>>]

PairSpec == PairInit /\ [][Next]_vars

\* KbGear with other customer records
KbGearAlt ==
    [KbGear EXCEPT !.customers =
        << [id |-> "c7", data |-> <<"c7", "Max Power", "premium account", "suspended">>],
           [id |-> "c8", data |-> <<"c8", "Ann Lee", "standard account", "suspended">>] >>]

\* KbGear with one customer record
KbGearOne ==
    [KbGear EXCEPT !.customers =
        << [id |-> "c3", data |-> <<"c3", "Kim Orr", "trial", "suspended">>] >>]

\* the k-th document of a directory of tents; the third is a backpack
ManyDocument(k) ==
    [id |-> NatText(k),
     content |-> "# Information about product item_number: " \o NatText(k)
                    \o (IF k = 3 THEN "\nRidge Daypack\n\n## Category\nBackpacks"
                                 ELSE "\nPeak Dome " \o NatText(k)
                                         \o "\n\n## Category\nTents")]

\* a knowledge directory with more matching documents than the scan returns
KbMany ==
    [customers |-> KbGear.customers,
     products |-> [k \in 1..11 |-> ManyDocument(k)]]

\* the knowledge directories the matcher is exercised on
MatcherSnapshots == {KbEmpty, KbGear, KbGearAlt, KbGearOne, KbMany}

\* one worker with everything wired, one request: the handler applies the
\* matcher to the query and the loaded knowledge
MatcherInit ==
    /\ files \in MatcherSnapshots
    /\ env = [w \in Workers |-> EnvOk]
    /\ wstate = [w \in Workers |-> IF w = 1 THEN "starting" ELSE "down"]
    /\ handles = [w \in Workers |-> NoHandles]
    /\ loop_owner = [w \in Workers |-> NoReq]
    /\ worker = [r \in Reqs |-> 1]
    /\ user_message \in [Reqs -> MatcherQueries]
    /\ user_message[2] = "hello"
    /\ pc = [r \in Reqs |-> IF r = 1 THEN "pending" ELSE "absent"]
    /\ InitRequests
    /\ health_response = [w \in Workers |-> <<>>]

MatcherSpec == MatcherInit /\ [][Next]_vars

\* the startup environments of the startup specification: loads that fail at
\* the k-th file, and the outcomes of the connection lookup and of the two
\* agent creations, with and without a Bing connection setting
StartupEnvs ==
    ServingEnvs
    \cup {[EnvOk EXCEPT !.cust_fail_at = k] : k \in 1..2}
    \cup {[EnvOk EXCEPT !.prod_fail_at = k] : k \in 1..3}
    \cup {[EnvOk EXCEPT !.client_fails = f, !.by_name_fails = a, !.list_finds = b,
                        !.create_bing_fails = c, !.create_nobing_fails = d] :
              f \in BOOLEAN, a \in BOOLEAN, b \in BOOLEAN, c \in BOOLEAN,
              d \in BOOLEAN}
    \cup {[EnvOk EXCEPT !.bing_name = FALSE, !.bing_other = o,
                        !.create_nobing_fails = d] : o \in BOOLEAN, d \in BOOLEAN}
    \cup {[EnvOk EXCEPT !.project_endpoint = FALSE, !.conn_string = c] : c \in BOOLEAN}

\* one worker started in any of the startup environments, one request
StartupInit ==
    /\ files = KbGear
    /\ env \in [Workers -> StartupEnvs]
    /\ env[2] = EnvOk
    /\ wstate = [w \in Workers |-> IF w = 1 THEN "starting" ELSE "down"]
    /\ handles = [w \in Workers |-> NoHandles]
    /\ loop_owner = [w \in Workers |-> NoReq]
    /\ worker = [r \in Reqs |-> 1]
    /\ user_message \in [Reqs -> {"hello", "what's the weather today"}]
    /\ user_message[2] = "hello"
    /\ pc = [r \in Reqs |-> IF r = 1 THEN "pending" ELSE "absent"]
    /\ InitRequests
    /\ health_response = [w \in Workers |-> <<>>]

\* the requests, the service and health queries
StartupNext ==
    \/ Next
    \/ \E w \in Workers : health(w)

StartupSpec == StartupInit /\ [][StartupNext]_vars

\* the steps of the handler but the returning matcher call; that call and the
\* raising one are enabled together, so a handler that keeps taking these
\* steps also gets past step 1
HandlerProgress(r) ==
    \/ StartRequest(r)
    \/ InternalSkipped(r)
    \/ InternalRaises(r)
    \/ RouteStep(r)
    \/ SubmitRun(r)
    \/ SubmitRaises(r)
    \/ PollStatus(r)
    \/ PollRaises(r)
    \/ WakeUp(r)
    \/ FetchMessages(r)
    \/ FetchRaises(r)
    \/ ComposeStep(r)
    \/ YieldCompleted(r)
    \/ YieldStreamEnd(r)

\* one worker, one request, with the scheduling the runtime guarantees: a started
\* worker finishes startup, and a handler that can take its next step (a call
\* returns or raises, a sleep ends) takes it
FairInit ==
    /\ Init
    /\ files = KbGear
    /\ env[1] = EnvOk
    /\ user_message[1] \in {"what's the weather today", "sunglasses"}

FairSpec ==
    /\ FairInit
    /\ [][Next]_vars
    /\ \A w \in Workers : WF_vars(lifespan(w))
    /\ \A r \in Reqs : WF_vars(HandlerProgress(r))

(***************************************************************************)
(* Properties                                                              *)
(***************************************************************************)
\* the reply is composed and the locals of the handler are still in the state
Composed(r) == pc[r] = "yield1"

\* the positions from the first yield on
Emitting == {"yield2", "done"}

\* the positions after step 2, before the first yield
AfterRoute == {"submit", "poll", "sleep", "sleep_error", "fetch", "step3", "yield1"}

\* the positions after step 1, before the first yield
AfterInternal == {"step2"} \cup AfterRoute

\* a fragment of the grounded-completion service is among the responses
HasAgentFragment(r) ==
    \E i \in 1..Len(responses[r]) : StartsWith(responses[r][i], AgentLabel)

\* C1: every request emits exactly two events, the completed_message event
\* carrying the whole composed reply and then the stream_end event, whatever
\* collaborators are missing or fail; nothing is emitted before the reply is
\* composed and nothing else is ever emitted.
C1_ExactlyTwoEvents ==
    \A r \in Reqs :
        /\ pc[r] \notin Emitting => events[r] = <<>>
        /\ pc[r] = "yield2" => events[r] = <<CompletedMessage(final_response[r])>>
        /\ pc[r] = "done" => events[r] = <<CompletedMessage(final_response[r]), StreamEnd>>

\* a request on a worker with the service wired ended with the fallback reply
C1_Witness ==
    \E r \in Reqs :
        /\ pc[r] = "done"
        /\ ServiceWired(worker[r])
        /\ final_response[r] = fallback_response
        /\ Len(events[r]) = 2

\* C2: the reply is never empty: it is the fixed fallback text when neither
\* the matcher nor the external run gave a fragment, and otherwise it holds a
\* non-empty fragment of one of them.
C2_ReplyNeverEmpty ==
    \A r \in Reqs :
        pc[r] \in {"yield1"} \cup Emitting =>
            /\ final_response[r] \notin {None, ""}
            /\ events[r] # <<>> => events[r][1].content # ""
            /\ IF internal_response[r] = None /\ agent_response[r] \in {None, ""}
               THEN final_response[r] = fallback_response
               ELSE /\ responses[r] # <<>>
                    /\ \A i \in 1..Len(responses[r]) :
                          Len(responses[r][i]) > Len(InternalLabel)
                    /\ final_response[r] = Join("\n\n", responses[r])

\* a request on a worker without the matcher ended with the fallback text
C2_Witness ==
    \E r \in Reqs :
        /\ pc[r] = "done"
        /\ ~MatcherWired(worker[r])
        /\ events[r][1].content = fallback_response

\* the collaborator calls of the request that raised
RaisedCalls(r) == {i \in 1..Len(calls[r]) : calls[r][i][2] = "raised"}

\* C3 (as claimed): when the polling loop ended without a terminal status
\* having been observed (budget exhausted, or a poll failed), no text is
\* extracted and the reply has no fragment of the external service.  (Stated
\* for the requests whose matcher call, if any, returned.)
C3_NoTextWithoutTerminalStatus ==
    \A r \in Reqs :
        (/\ Composed(r)
         /\ RaisedOf(r, "search") = {}
         /\ CallsOf(r, "poll") # {}
         /\ last_status[r] \notin TerminalStatuses)
            => agent_response[r] = None /\ ~HasAgentFragment(r)

\* the matcher gave nothing usable: nothing was kept, or only the not-found sentinel
NoUsableInternalResult(r) ==
    \/ internal_response[r] = None
    \/ internal_response[r] = NotFoundText(user_message[r])

\* C4 (as claimed): with the service wired a run is submitted for every query
\* with a real-time trigger keyword and for every query whose internal
\* matching gave no usable result, the not-found sentinel included.
C4_SubmitsWithoutUsableResult ==
    \A r \in Reqs :
        (/\ pc[r] \in AfterRoute
         /\ ServiceWired(worker[r])
         /\ needs_web_search(user_message[r]) \/ NoUsableInternalResult(r))
            => CallsOf(r, "submit") # {} \/ pc[r] = "submit"

\* C5 (as claimed): while a request sleeps between two polls, every other
\* unfinished request of the same worker can take a step.
C5_SleepDoesNotBlock ==
    \A r, q \in Reqs :
        (/\ r # q
         /\ worker[r] = worker[q]
         /\ pc[r] \in {"sleep", "sleep_error"}
         /\ pc[q] \notin {"absent", "done"})
            => ENABLED RequestStep(q)

\* the largest number of status polls within the budget
MaxPolls == max_wait_time \div wait_interval

\* the polling loop is running
InPollLoop(r) == pc[r] \in {"poll", "sleep", "sleep_error"}

C7_SinglePollFailureTolerated ==
    \A r \in Reqs :
        (/\ pc[r] = "fetch"
         /\ RaisedOf(r, "search") = {}
         /\ Cardinality(RaisedOf(r, "poll")) = 1)
            => \/ last_status[r] \in TerminalStatuses
               \/ elapsed_time[r] >= max_wait_time

\* the worker of r has no service and the worker of q has one that gave no
\* text, the matcher having answered the two alike
UnwiredAndFailing(r, q) ==
    /\ ~ServiceWired(worker[r])
    /\ ServiceWired(worker[q])
    /\ user_message[r] = user_message[q]
    /\ handles[worker[r]].knowledge = handles[worker[q]].knowledge
    /\ internal_response[r] = internal_response[q]
    /\ agent_response[q] \in {None, ""}

\* C8: no service wired is observably the same as a wired service that fails
\* or has no text: for the same query and knowledge the replies and the event
\* sequences are equal.
C8_UnwiredEqualsFailing ==
    \A r, q \in Reqs :
        (/\ pc[r] \in {"yield1"} \cup Emitting
         /\ pc[q] \in {"yield1"} \cup Emitting
         /\ UnwiredAndFailing(r, q))
            => /\ final_response[r] = final_response[q]
               /\ pc[r] = pc[q] => events[r] = events[q]

\* the unwired request is done and the wired one composed the same reply after
\* its submit raised
C8_Witness ==
    \E r, q \in Reqs :
        /\ pc[r] = "done"
        /\ Composed(q)
        /\ UnwiredAndFailing(r, q)
        /\ RaisedOf(q, "submit") # {}
        /\ final_response[r] = final_response[q]

\* C9 (as claimed): an exception of a single collaborator call (the only call
\* of the request that raised) is caught at the call and means no result from
\* that source; after a failed submit nothing is polled or fetched; the reply
\* is still composed.
C9_FailureMeansNoResult ==
    \A r \in Reqs :
        (Composed(r) /\ Cardinality(RaisedCalls(r)) = 1) =>
            /\ final_response[r] \notin {None, ""}
            /\ RaisedOf(r, "search") # {} => internal_response[r] = None
            /\ RaisedOf(r, "submit") # {} =>
                  /\ CallsOf(r, "poll") = {} /\ CallsOf(r, "fetch") = {}
                  /\ agent_response[r] = None /\ ~HasAgentFragment(r)
            /\ RaisedOf(r, "poll") # {} =>
                  agent_response[r] = None /\ ~HasAgentFragment(r)
            /\ RaisedOf(r, "fetch") # {} =>
                  agent_response[r] = None /\ ~HasAgentFragment(r)

\* the query has a keyword that is not a real-time trigger word
HasOtherKeyword(message) ==
    \E kw \in Range(ExtractKeywords(Strip(Lower(message)))) :
        kw \notin web_search_keywords

\* C10 (as claimed): the matcher is consulted for every query that has a
\* keyword other than a real-time trigger word, also next to a trigger word.
C10_MatcherConsulted ==
    \A r \in Reqs :
        (/\ pc[r] \in AfterInternal
         /\ MatcherWired(worker[r])
         /\ HasOtherKeyword(user_message[r]))
            => CallsOf(r, "search") # {}

\* queries with a real-time trigger word and a product keyword the knowledge
\* has documents for
CombinedQueries == {"latest tents"}

\* the request holds an internal result and has submitted a run
BothSources(r) == internal_response[r] # None /\ CallsOf(r, "submit") # {}

\* C11 (as claimed): a request can both obtain a usable internal fragment and
\* submit an external run: on a worker with matcher and service wired, a query
\* with a real-time word and a product keyword has done both once it is past
\* the submit (unless the matcher call raised); and whenever both happened,
\* the submitted prompt contains the internal fragment's text.
C11_BothSourcesCombined ==
    \A r \in Reqs :
        /\ (/\ pc[r] \in AfterRoute \ {"submit"}
            /\ user_message[r] \in CombinedQueries
            /\ MatcherWired(worker[r])
            /\ handles[worker[r]].knowledge.products # <<>>
            /\ ServiceWired(worker[r])
            /\ RaisedOf(r, "search") = {}) => BothSources(r)
        /\ BothSources(r) => Contains(internal_response[r], enhanced_message[r])

\* the fragments produced during the request, in production order
ProducedFragments(r) ==
    LET internal == IF internal_response[r] # None
                    THEN <<InternalLabel \o internal_response[r]>> ELSE <<>>
        external == IF agent_response[r] \notin {None, ""}
                    THEN <<AgentLabel \o agent_response[r]>> ELSE <<>>
    IN  IF internal \o external = <<>> THEN <<fallback_response>>
        ELSE internal \o external

ServiceCalls(r) == CallsOf(r, "submit") \cup CallsOf(r, "poll") \cup CallsOf(r, "fetch")

\* C13: within one request the matcher lookup, when it runs, has completed
\* before the decision on the external run is taken, and no submit, poll or
\* fetch call precedes or interleaves with it: the matcher call is the first
\* call of the request and no run exists before the decision.
C13_MatcherBeforeExternalRun ==
    \A r \in Reqs :
        /\ pc[r] \in {"pending", "step1", "step2"} =>
              ServiceCalls(r) = {} /\ run_status[r] = None
        /\ CallsOf(r, "search") \subseteq {1}
        /\ (pc[r] \in AfterInternal /\ CallsMatcher(worker[r], user_message[r])) =>
              CallsOf(r, "search") = {1}
        /\ \A i \in CallsOf(r, "search") : \A j \in ServiceCalls(r) : i < j

\* a request whose matcher call returned and whose run was then submitted,
\* polled and fetched
C13_Witness ==
    \E r \in Reqs :
        /\ calls[r] # <<>>
        /\ calls[r][1] = <<"search", "ok">>
        /\ CallsOf(r, "submit") # {}
        /\ CallsOf(r, "poll") # {}
        /\ CallsOf(r, "fetch") # {}

\* the matcher call of the request has just returned
SearchDone(r) == pc[r] = "step2" /\ calls[r] = << <<"search", "ok">> >>

\* what the matcher returned to the request
SearchResult(r) ==
    search_internal_knowledge(handles[worker[r]].knowledge, user_message[r])

\* the keywords of the request's query
QueryKeywords(r) == ExtractKeywords(Strip(Lower(user_message[r])))

\* the matcher's result for the request's query does not depend on the records
RecordsIgnored(r) ==
    \A kb \in MatcherSnapshots :
        search_internal_knowledge(kb, user_message[r]) = SearchResult(r)

\* C14 (as claimed): for every query from which no keyword survives the
\* stopword and length filters, the matcher returns the one fixed greeting
\* fragment and its result does not depend on any record.
C14_GreetingForNoKeywords ==
    \A r \in Reqs :
        (SearchDone(r) /\ QueryKeywords(r) = <<>>) =>
            /\ SearchResult(r) = GreetingText
            /\ internal_response[r] = GreetingText
            /\ RecordsIgnored(r)

\* the fixed fragments of the matcher
FixedFragments == {EmptyQueryText, GreetingText, BeSpecificText}

\* C14 (amended): for every query from which no keyword survives the stopword
\* and length filters, the matcher returns one of its fixed fragments (the
\* provide-a-query text exactly for the empty query), the handler keeps it,
\* and the result does not depend on any record.
C14_FixedFragmentForNoKeywords ==
    \A r \in Reqs :
        (SearchDone(r) /\ QueryKeywords(r) = <<>>) =>
            /\ SearchResult(r) \in FixedFragments
            /\ SearchResult(r) = EmptyQueryText <=> user_message[r] = ""
            /\ internal_response[r] = SearchResult(r)
            /\ RecordsIgnored(r)

\* a query of stopwords only got the be-more-specific fragment from a
\* knowledge directory that holds records
C14_Witness ==
    \E r \in Reqs :
        /\ SearchDone(r)
        /\ user_message[r] = "tell me about the"
        /\ handles[worker[r]].knowledge = KbGear
        /\ internal_response[r] = BeSpecificText

\* the result holds the entry of the product document
Returned(product, result) == Contains("Product - " \o product.id \o ": ", result)

\* the product documents of the knowledge the request's worker holds
ProductsOf(r) == Range(handles[worker[r]].knowledge.products)

\* C15: for a query whose keywords include a category trigger keyword, every
\* product document in the result declares a category field and that field
\* matches a trigger keyword of a requested category; a document without the
\* field, or whose body only mentions the category word, is not returned.
C15_CategoryFieldMatch ==
    \A r \in Reqs :
        (SearchDone(r) /\ RelevantCategories(QueryKeywords(r)) # <<>>) =>
            \A product \in ProductsOf(r) :
                Returned(product, SearchResult(r)) =>
                    /\ CategoryMatch(product.content) \notin {None, ""}
                    /\ \E c \in Range(RelevantCategories(QueryKeywords(r))) :
                          \E ck \in Range(c.keywords) :
                              Contains(ck, CategoryMatch(product.content))

\* a tent query returned the tent document and neither the backpack document,
\* whose body mentions a tent, nor the stove document, which has no category
C15_Witness ==
    \E r \in Reqs :
        /\ SearchDone(r)
        /\ user_message[r] = "show me tents"
        /\ Len(handles[worker[r]].knowledge.products) = 3
        /\ \A product \in ProductsOf(r) :
              Returned(product, internal_response[r]) <=> product.id = "1"

\* the number of customer records a field value of which contains a keyword
MatchCount(kb, keywords) ==
    Cardinality({i \in 1..Len(kb.customers) :
                    CustomerMatches(kb.customers[i].data, keywords)})

\* the positions in text at which part occurs
Occurrences(part, text) ==
    {i \in 1..(Len(text) - Len(part) + 1) : SubSeq(text, i, i + Len(part) - 1) = part}

CustomerEntryMark == " matching customer records"

EndsWith(text, part) ==
    Len(part) <= Len(text) /\ SubSeq(text, Len(text) - Len(part) + 1, Len(text)) = part

\* C16: the matcher's output depends on the customer records only through the
\* number of matching records: it holds at most one customer entry, the entry
\* reports the match count and nothing else of the records, no field value of
\* a customer record occurs in the output, and a knowledge directory with the
\* same products and the same match count gives the identical output.
C16_CustomersOnlyCounted ==
    \A r \in Reqs :
        SearchDone(r) =>
            LET kb == handles[worker[r]].knowledge
                keywords == QueryKeywords(r)
                result == SearchResult(r)
            IN  /\ Cardinality(Occurrences(CustomerEntryMark, result)) <= 1
                /\ Occurrences(CustomerEntryMark, result) # {} =>
                      /\ MatchCount(kb, keywords) > 0
                      /\ EndsWith(result,
                                  "Found " \o NatText(MatchCount(kb, keywords))
                                     \o CustomerEntryMark
                                     \o " (details require specific customer ID)")
                /\ \A i \in 1..Len(kb.customers) :
                      \A value \in Range(kb.customers[i].data) :
                          ~Contains(value, result)
                /\ \A other \in MatcherSnapshots :
                      (/\ other.products = kb.products
                       /\ MatchCount(other, keywords) = MatchCount(kb, keywords))
                          => search_internal_knowledge(other, user_message[r]) = result

\* a customer query on records one of which matches: the handler holds the
\* count entry, and another directory with other records gives the same count
C16_Witness ==
    \E r \in Reqs :
        /\ SearchDone(r)
        /\ user_message[r] = "premium customer"
        /\ handles[worker[r]].knowledge = KbGear
        /\ MatchCount(KbGearAlt, QueryKeywords(r)) = 1
        /\ internal_response[r] =
              "Found 1 matching customer records (details require specific customer ID)"

\* the words of the greeting and general-query phrases
GreetingWords ==
    {"hi", "hello", "hey", "good", "morning", "afternoon", "evening", "help",
     "start", "begin", "what", "can", "you", "do", "how", "are"}

\* every token of the query is a stopword or a word of a greeting phrase
OnlyStopOrGreetingWords(query) ==
    \A token \in Range(SplitWs(Strip(Lower(query)))) :
        token \in common_words \cup GreetingWords

\* no policy, product or customer rule yields an entry
NoEntries(kb, keywords) ==
    /\ PolicyEntries(keywords) = <<>>
    /\ ProductScan(kb.products, 1, keywords, RelevantCategories(keywords), <<>>, 0) = <<>>
    /\ CustomerEntries(kb.customers, keywords) = <<>>

\* C17 (as claimed): the matcher is total; for every query with at least one
\* keyword (a query that is not made of stopwords and greeting words only) for
\* which no policy, product or customer rule yields an entry, the result is
\* exactly the not-found guidance sentinel, and the sentinel is returned in no
\* other case.
C17_NotFoundSentinel ==
    \A r \in Reqs :
        SearchDone(r) =>
            LET kb == handles[worker[r]].knowledge
                keywords == QueryKeywords(r)
                result == SearchResult(r)
            IN  /\ result = NotFoundText(user_message[r]) =>
                      keywords # <<>> /\ NoEntries(kb, keywords)
                /\ (/\ ~OnlyStopOrGreetingWords(user_message[r])
                    /\ keywords # <<>>
                    /\ NoEntries(kb, keywords)) => result = NotFoundText(user_message[r])

\* the place of a status in the life of a run
StatusRank(status) ==
    CASE status = None -> 0
      [] status = "queued" -> 1
      [] status = "in_progress" -> 2
      [] status \in TerminalStatuses -> 3

\* C18: the status the handler holds for its run never regresses: each poll
\* that changes it moves it forward (queued, in_progress, terminal), and once
\* a terminal status has been observed the handler polls no more, so it never
\* observes or records another status for that run.
C18_StatusNeverRegresses ==
    [][\A r \in Reqs :
          /\ (pc'[r] # "yield2" /\ last_status'[r] # last_status[r]) =>
                StatusRank(last_status'[r]) > StatusRank(last_status[r])
          /\ (pc'[r] # "yield2" /\ last_status[r] \in TerminalStatuses) =>
                /\ last_status'[r] = last_status[r]
                /\ {i \in 1..Len(calls'[r]) : calls'[r][i][1] = "poll"} = CallsOf(r, "poll")
                /\ pc'[r] \notin {"poll", "sleep", "sleep_error"}]_vars

\* the third poll of a run returned a terminal status
C18_Witness ==
    \E r \in Reqs :
        /\ pc[r] = "fetch"
        /\ Polls(r) = 3
        /\ RaisedOf(r, "poll") = {}
        /\ last_status[r] = "completed"

\* reading the k-th of the records fails, for a k within the records
LoadFails(records, fail_at) == fail_at \in 1..Len(records)

\* C19 (as claimed): when loading the customer records or the product
\* documents fails at any point, startup goes on (the worker serves, with the
\* matcher wired) and the set that was being loaded is empty, not the part
\* read before the failure.
C19_FailedLoadIsEmpty ==
    \A w \in Workers :
        (wstate[w] = "serving" /\ ~env[w].init_fails) =>
            /\ MatcherWired(w)
            /\ LoadFails(files.customers, env[w].cust_fail_at) =>
                  handles[w].knowledge.customers = <<>>
            /\ LoadFails(files.products, env[w].prod_fail_at) =>
                  handles[w].knowledge.products = <<>>

\* the capability flags of the health response
FlagFields ==
    {"ai_project_client_enabled", "bing_grounding_enabled",
     "internal_knowledge_enabled", "semantic_kernel_enabled",
     "chat_service_enabled"}

\* the fixed labels of the health response
HealthLabels == {"healthy", "hybrid_sk_plus_azure_ai_projects"}

\* C20 (as claimed): the health response holds boolean capability flags only
\* (beside them at most fixed labels; no identifier, no internal value), the
\* internal flag is true exactly when stream_agent_response would consult the
\* matcher, and the external flag exactly when it could submit a run.
C20_HealthFlagsOnly ==
    \A w \in Workers :
        health_response[w] # <<>> =>
            LET response == health_response[w][1]
            IN  /\ \A field \in DOMAIN response \ FlagFields :
                      response[field] \in HealthLabels \cup {None}
                /\ \A field \in FlagFields : response[field] \in BOOLEAN
                /\ response.internal_knowledge_enabled <=> MatcherWired(w)
                /\ response.bing_grounding_enabled <=> ServiceWired(w)

\* the messages were fetched and the extraction loop has run
Extracted(r) ==
    /\ pc[r] \in {"step3", "yield1"}
    /\ \E i \in CallsOf(r, "fetch") : calls[r][i][2] = "ok"

\* the content items of a message that carry a non-empty text
NonEmptyTexts(content) ==
    {j \in 1..Len(content) : content[j].kind = "text" /\ content[j].value # ""}

\* the assistant messages of a list that have a non-empty text item
TextMessages(messages_list) ==
    {i \in 1..Len(messages_list) :
        /\ messages_list[i].role = "assistant"
        /\ NonEmptyTexts(messages_list[i].content) # {}}

\* the reference extraction: the first non-empty text item of the first
\* assistant message, in return order, that has one; None when there is none
ReferenceExtract(messages_list) ==
    IF TextMessages(messages_list) = {} THEN None
    ELSE LET content == messages_list[Nth(TextMessages(messages_list), 1)].content
         IN  content[Nth(NonEmptyTexts(content), 1)].value

\* C21 (as claimed): for every returned message list the extracted result is
\* the text of the first assistant message, in return order, that has a
\* non-empty text content item (that message's first non-empty text item), and
\* there is no content ("" or None) when no message has one.
C21_ExtractionMatchesReference ==
    \A r \in Reqs :
        (Extracted(r) /\ RaisedCalls(r) = {} /\ last_status[r] = "completed") =>
            IF ReferenceExtract(thread[r]) = None
            THEN agent_response[r] \in {None, ""}
            ELSE agent_response[r] = ReferenceExtract(thread[r])

\* the query of the request passed the greeting test and has keywords: the
\* matcher went through its scans
Scanned(r) ==
    /\ SearchDone(r)
    /\ ~IsGreetingQuery(Strip(Lower(user_message[r])))
    /\ QueryKeywords(r) # <<>>

\* the positions, in a directory's product documents, of those the query matches
MatchingProducts(kb, keywords) ==
    {i \in 1..Len(kb.products) :
        ShouldInclude(kb.products[i].content, keywords, RelevantCategories(keywords))}

ProductEntryMark == "Product - "

\* where the entry of the product document starts in the result
EntryPosition(product, result) ==
    Nth(Occurrences(ProductEntryMark \o product.id \o ": ", result), 1)

\* C22: the result of a search that went through the scans holds at most 8
\* product entries; they are the entries of the first (up to 8) matching
\* product documents in the order the documents were loaded, in that order; no
\* document after the 8th match has an entry.
C22_FirstEightMatches ==
    \A r \in Reqs :
        Scanned(r) =>
            LET kb == handles[worker[r]].knowledge
                matching == MatchingProducts(kb, QueryKeywords(r))
                result == SearchResult(r)
            IN  /\ Cardinality(Occurrences(ProductEntryMark, result)) <= MaxProductMatches
                /\ Cardinality(Occurrences(ProductEntryMark, result)) =
                      IF Cardinality(matching) <= MaxProductMatches
                      THEN Cardinality(matching) ELSE MaxProductMatches
                /\ \A i \in 1..Len(kb.products) :
                      Returned(kb.products[i], result) <=>
                          /\ i \in matching
                          /\ Cardinality({j \in matching : j < i}) < MaxProductMatches
                /\ \A i, j \in 1..Len(kb.products) :
                      (/\ i < j
                       /\ Returned(kb.products[i], result)
                       /\ Returned(kb.products[j], result)) =>
                          EntryPosition(kb.products[i], result)
                             < EntryPosition(kb.products[j], result)

\* a tent query on the directory with ten tents: the entries of the first
\* eight tents were returned, those of the ninth and tenth were not
C22_Witness ==
    \E r \in Reqs :
        /\ SearchDone(r)
        /\ user_message[r] = "show me tents"
        /\ handles[worker[r]].knowledge = KbMany
        /\ Cardinality(MatchingProducts(KbMany, QueryKeywords(r))) = 10
        /\ \A i \in 1..11 :
              Returned(KbMany.products[i], internal_response[r]) <=> i \in (1..9) \ {3}

\* the lower-cased title line of a product document: the line under its heading
TitleLine(content) ==
    IF Len(SplitLines(content)) >= 2 THEN Lower(SplitLines(content)[2]) ELSE ""

\* a keyword longer than 3 characters occurs in the title line or in the
\* category field of the document
QualifiesFreeText(content, keywords) ==
    \E kw \in Range(keywords) :
        /\ Len(kw) > 3
        /\ \/ Contains(kw, TitleLine(content))
           \/ /\ CategoryMatch(content) \notin {None, ""}
              /\ Contains(kw, CategoryMatch(content))

\* the category field of the document matches a trigger keyword of a category
\* the keywords ask for
QualifiesCategory(content, keywords) ==
    /\ CategoryMatch(content) \notin {None, ""}
    /\ \E c \in Range(RelevantCategories(keywords)) :
          \E ck \in Range(c.keywords) : Contains(ck, CategoryMatch(content))

\* C23: in free-text mode (keywords, none of them a category trigger) the scan
\* matches a product document if and only if a keyword longer than 3
\* characters occurs in its title line or in its category field, and the
\* result holds the entry of exactly the matched documents (the first 8 of
\* them); in category mode a document that only qualifies by free text has no
\* entry.
C23_FreeTextMatch ==
    \A r \in Reqs :
        Scanned(r) =>
            LET kb == handles[worker[r]].knowledge
                keywords == QueryKeywords(r)
                result == SearchResult(r)
                Qualifying == {i \in 1..Len(kb.products) :
                                  QualifiesFreeText(kb.products[i].content, keywords)}
            IN  IF RelevantCategories(keywords) = <<>>
                THEN /\ MatchingProducts(kb, keywords) = Qualifying
                     /\ \A i \in 1..Len(kb.products) :
                           Returned(kb.products[i], result) <=>
                               /\ i \in Qualifying
                               /\ Cardinality({j \in Qualifying : j < i}) < MaxProductMatches
                ELSE \A i \in 1..Len(kb.products) :
                        ~QualifiesCategory(kb.products[i].content, keywords) =>
                            ~Returned(kb.products[i], result)

\* a free-text query whose keyword occurs in the category field of one
\* document returned the entry of that document and of no other
C23_Witness ==
    \E r \in Reqs :
        /\ SearchDone(r)
        /\ user_message[r] = "packs"
        /\ handles[worker[r]].knowledge = KbGear
        /\ RelevantCategories(QueryKeywords(r)) = <<>>
        /\ \A product \in ProductsOf(r) :
              Returned(product, internal_response[r]) <=> product.id = "2"

PolicyEntryMark == "Policy - "

\* the keywords hold a policy trigger keyword
PolicyTriggered(keywords) == policy_keywords \cap Range(keywords) # {}

\* the positions, in the policies, of those whose key or text holds a keyword
MatchingPolicies(keywords) ==
    {i \in 1..Len(Policies) :
        \E kw \in Range(keywords) :
            Contains(kw, Lower(Policies[i].key)) \/ Contains(kw, Lower(Policies[i].text))}

\* the entry of the i-th policy
PolicyEntry(i) == PolicyEntryMark \o Policies[i].key \o ": " \o Policies[i].text

\* C24: the result of a search holds policy entries only when the keywords
\* hold a policy trigger keyword; then it holds exactly the entries of the
\* policies whose key or text contains a keyword, in policy insertion order;
\* every policy entry precedes every product entry, and these precede the
\* customer entry.
C24_PolicyEntries ==
    \A r \in Reqs :
        Scanned(r) =>
            LET keywords == QueryKeywords(r)
                result == SearchResult(r)
                policy_at == Occurrences(PolicyEntryMark, result)
                product_at == Occurrences(ProductEntryMark, result)
                customer_at == Occurrences(CustomerEntryMark, result)
            IN  /\ ~PolicyTriggered(keywords) => policy_at = {}
                /\ PolicyTriggered(keywords) =>
                      /\ Cardinality(policy_at) = Cardinality(MatchingPolicies(keywords))
                      /\ \A i \in 1..Len(Policies) :
                            Contains(PolicyEntry(i), result) <=> i \in MatchingPolicies(keywords)
                      /\ \A i, j \in MatchingPolicies(keywords) :
                            i < j => Nth(Occurrences(PolicyEntry(i), result), 1)
                                        < Nth(Occurrences(PolicyEntry(j), result), 1)
                /\ \A a \in policy_at : \A b \in product_at \cup customer_at : a < b
                /\ \A b \in product_at : \A c \in customer_at : b < c

\* a query with a policy trigger, a category and a customer trigger keyword
\* returned policy entries, a product entry and the customer entry
C24_Witness ==
    \E r \in Reqs :
        /\ SearchDone(r)
        /\ user_message[r] = "account service tents"
        /\ handles[worker[r]].knowledge = KbGear
        /\ Cardinality(MatchingPolicies(QueryKeywords(r))) >= 2
        /\ Occurrences(PolicyEntryMark, internal_response[r]) # {}
        /\ Occurrences(ProductEntryMark, internal_response[r]) # {}
        /\ Occurrences(CustomerEntryMark, internal_response[r]) # {}

\* C25 (as claimed): the greeting short-circuit fires only for queries that
\* have no keyword left after stopword removal; in particular every query
\* with a surviving category keyword reaches product matching and is not
\* answered with the greeting fragment.
C25_GreetingOnlyWithoutKeywords ==
    \A r \in Reqs :
        (/\ SearchDone(r)
         /\ RelevantCategories(QueryKeywords(r)) # <<>>
         /\ handles[worker[r]].knowledge.products # <<>>) =>
            /\ SearchResult(r) # GreetingText
            /\ internal_response[r] # GreetingText

\* the place of a call in the protocol of the grounded-completion service
CallRank(name) ==
    CASE name = "search" -> 0
      [] name = "submit" -> 1
      [] name = "poll" -> 2
      [] name = "fetch" -> 3

\* the calls made so far follow submit, poll*, fetch
ProtocolOrder(r) ==
    /\ Cardinality(CallsOf(r, "submit")) <= 1
    /\ Cardinality(CallsOf(r, "fetch")) <= 1
    /\ \A i \in 1..(Len(calls[r]) - 1) :
          CallRank(calls[r][i][1]) <= CallRank(calls[r][i + 1][1])
    /\ \A i \in CallsOf(r, "poll") \cup CallsOf(r, "fetch") :
          \E j \in CallsOf(r, "submit") : j < i /\ calls[r][j][2] = "ok"
    /\ \A i \in CallsOf(r, "fetch") :
          /\ i = Len(calls[r])
          /\ pc[r] \in {"step3", "yield1"}
    /\ events[r] # <<>> => pc[r] \in Emitting

\* the calls of one kind after the step
CallsAfter(r, name) == {i \in 1..Len(calls'[r]) : calls'[r][i][1] = name}

\* a step of the handler that calls the service
CallsService(r) ==
    \E name \in {"submit", "poll", "fetch"} : CallsAfter(r, name) \ CallsOf(r, name) # {}

\* C26: per request the calls to the external service follow the protocol
\* submit, poll*, fetch: at most one submit; a poll or fetch only after a
\* submit that returned; no poll after a poll that returned a terminal
\* status; at most one fetch, made after the polling loop ended, as the last
\* call; and no service call once the first event is emitted.
C26_CallProtocol ==
    /\ [](\A r \in Reqs : ProtocolOrder(r))
    /\ [][\A r \in Reqs :
             /\ (last_status[r] \in TerminalStatuses /\ pc[r] \notin Emitting) =>
                   CallsAfter(r, "poll") \subseteq CallsOf(r, "poll")
             /\ CallsAfter(r, "fetch") \ CallsOf(r, "fetch") # {} =>
                   pc[r] = "fetch" /\ pc'[r] \notin {"poll", "sleep", "sleep_error"}
             /\ events[r] # <<>> => ~CallsService(r)]_vars

\* a run that was submitted, polled three times and fetched, before the
\* first event
C26_Witness ==
    \E r \in Reqs :
        /\ pc[r] = "yield1"
        /\ events[r] = <<>>
        /\ Cardinality(CallsOf(r, "submit")) = 1
        /\ Polls(r) = 3
        /\ Cardinality(CallsOf(r, "fetch")) = 1
        /\ RaisedCalls(r) = {}

\* the terminal statuses of a run that did not complete
UnsuccessfulStatuses == {"failed", "expired", "cancelled"}

\* C27 (as claimed): a run whose last observed status is failed, expired or
\* cancelled contributes no external fragment; text is extracted from the
\* thread's messages only when the run was observed completed.  (Stated for
\* the requests none of whose calls raised.)
C27_FailedRunNoFragment ==
    \A r \in Reqs :
        (Composed(r) /\ RaisedCalls(r) = {}) =>
            /\ last_status[r] \in UnsuccessfulStatuses =>
                  agent_response[r] \in {None, ""} /\ ~HasAgentFragment(r)
            /\ last_status[r] \in TerminalStatuses =>
                  (agent_response[r] \notin {None, ""} => last_status[r] = "completed")

\* the fragments among the responses that carry the label
Labelled(r, label) ==
    {i \in 1..Len(responses[r]) : StartsWith(responses[r][i], label)}

\* the one fragment of the reply, by precedence
ChosenFragment(r) ==
    IF agent_response[r] \notin {None, ""} THEN AgentLabel \o agent_response[r]
    ELSE IF internal_response[r] # None THEN InternalLabel \o internal_response[r]
    ELSE fallback_response

\* C28: the final reply consists of exactly one fragment, chosen by
\* precedence: the external fragment if text was extracted, otherwise the
\* internal fragment if one was kept, otherwise the fixed fallback text; at
\* most one fragment per source is ever produced in a request.
C28_OneFragmentByPrecedence ==
    \A r \in Reqs :
        /\ Cardinality(Labelled(r, AgentLabel)) <= 1
        /\ Cardinality(Labelled(r, InternalLabel)) <= 1
        /\ Composed(r) =>
              /\ responses[r] = <<ChosenFragment(r)>>
              /\ final_response[r] = ChosenFragment(r)

\* a reply made of the internal fragment on a worker whose service is wired
C28_Witness ==
    \E r \in Reqs :
        /\ Composed(r)
        /\ ServiceWired(worker[r])
        /\ agent_response[r] = None
        /\ Contains("Product - ", internal_response[r])
        /\ final_response[r] = InternalLabel \o internal_response[r]

\* the matcher and the grounded-completion service are both wired
BothWired(w) == MatcherWired(w) /\ ServiceWired(w)

\* C29: when both the matcher and the external service are wired, no request
\* reaches the fallback text without having consulted a source: whenever the
\* internal search is skipped because the query holds an external-information
\* keyword ("market", which is only in the skip list, included), an external
\* run is submitted for that request.
C29_SkippedSearchSubmitsRun ==
    \A r \in Reqs :
        (pc[r] \in AfterRoute /\ BothWired(worker[r])) =>
            /\ is_external_query(user_message[r]) =>
                  /\ CallsOf(r, "search") = {}
                  /\ pc[r] = "submit" \/ CallsOf(r, "submit") # {}
            /\ (Composed(r) /\ final_response[r] = fallback_response) =>
                  CallsOf(r, "search") \cup CallsOf(r, "submit") # {}

\* a query holding only the skip-list word "market": no matcher call, a run
\* was submitted and gave no text, and the reply is the fallback text
C29_Witness ==
    \E r \in Reqs :
        /\ Composed(r)
        /\ BothWired(worker[r])
        /\ user_message[r] = "market"
        /\ ~needs_web_search(user_message[r])
        /\ CallsOf(r, "search") = {}
        /\ \E i \in CallsOf(r, "submit") : calls[r][i][2] = "ok"
        /\ final_response[r] = fallback_response

\* create_hybrid_system got as far as the project client: no failure before
\* it, and a connection string or an endpoint to build the client from
ReachesClient(e) == ~e.init_fails /\ (e.conn_string \/ e.project_endpoint)

\* every create_agent call create_hybrid_system makes in the environment fails
AllCreationsFail(e) ==
    /\ e.create_nobing_fails
    /\ (e.bing_name \/ e.bing_other) => (e.create_bing_fails \/ ~BingGroundingBuilt(e))

\* C30: after create_hybrid_system, under every combination of failures of
\* the client construction, of the Bing connection lookup (by name, then by
\* listing) and of the agent creation (with Bing, then without): the agent
\* handle is set only if the project client is set; if the client
\* construction fails both are unset; if the agent creation fails both with
\* and without Bing the agent is unset and startup still completes.
C30_AgentOnlyWithClient ==
    \A w \in Workers :
        wstate[w] = "serving" =>
            LET h == handles[w]
                e == env[w]
            IN  /\ h.agent => h.ai_project_client
                /\ h.agent <=> h.agent_id # None
                /\ (ReachesClient(e) /\ e.client_fails) =>
                      ~h.ai_project_client /\ ~h.agent /\ h.kernel
                /\ (ReachesClient(e) /\ ~e.client_fails /\ AllCreationsFail(e)) =>
                      h.ai_project_client /\ ~h.agent /\ h.kernel

\* a worker that serves with the project client and without an agent: the
\* connection was found and both agent creations failed
C30_Witness ==
    \E w \in Workers :
        /\ wstate[w] = "serving"
        /\ BingGroundingBuilt(env[w])
        /\ env[w].create_bing_fails /\ env[w].create_nobing_fails
        /\ handles[w].ai_project_client
        /\ ~handles[w].agent
        /\ handles[w].kernel

====
